---- MODULE Spec2Model ----
(***************************************************************************)
(* Model of the REST client-stub generator of panyam/relay                 *)
(* (bindings/rest/generator.go): the writer dispatch WriterMethodForType,  *)
(* the class emission EmitClientClass, the method emission                 *)
(* EmitSendRequestMethod with the helpers it calls, and the method text    *)
(* that EndWritingMethod emits, run as the generated client would run it.  *)
(***************************************************************************)
EXTENDS Integers, Sequences, FiniteSets, TLC

VARIABLES
    types,            \* the type graph: node -> TypeData of that *bindings.Type
    Bindings,         \* Generator.Bindings: operation name -> *HttpBinding
    ServiceName,      \* Generator.ServiceName
    ServiceType,      \* Generator.ServiceType (node of the record, NoType when nil)
    OpName,           \* Generator.OpName
    OpType,           \* Generator.OpType.InputTypes (sequence of nodes)
    OpMethod,         \* Generator.OpMethod
    OpEndpoint,       \* Generator.OpEndpoint
    output,           \* chunks written to the io.Writer of the current call
    stdout,           \* chunks written to os.Stdout
    pc,               \* position of the generator's caller / of the running call
    index,            \* loop index of EmitSendRequestMethod's range loop
    panicked,         \* value of the panic that ended the call, NoPanic otherwise
    ret,              \* error value returned by the last completed call
    arg,              \* argument of the last direct WriterMethodForType call
    callString,       \* result of the last direct WriterMethodForType call
    RequestDecorator, \* svc.RequestDecorator of the generated client
    httpreq,          \* httpreq of the running generated method
    err,              \* err of the running generated method / its returned error
    resp,             \* response returned by the generated method
    rpc,              \* position inside the generated method
    sent              \* number of requests handed to http.Client.Do so far

vars == <<types, Bindings, ServiceName, ServiceType, OpName, OpType, OpMethod,
          OpEndpoint, output, stdout, pc, index, panicked, ret, arg, callString,
          RequestDecorator, httpreq, err, resp, rpc, sent>>

genVars == <<Bindings, ServiceName, ServiceType, OpName, OpType, OpMethod,
             OpEndpoint, output, stdout, index, panicked, ret>>

clientVars == <<RequestDecorator, httpreq, err, resp, rpc, sent>>

(***************************************************************************)
(* Bounds of the model.                                                    *)
(***************************************************************************)
\* number of *bindings.Type nodes in the type graph
NumTypes == 2
\* largest number of inputs of an operation
MaxInputs == 2
\* largest number of class headers written to os.Stdout in one run
MaxClasses == 2
\* largest number of requests the generated client dispatches in one run
MaxRequests == 4

Nodes == 1..NumTypes

\* Depth of nested WriterMethodForType calls at which the runtime aborts the
\* program for stack exhaustion; every acyclic chain of the graph fits below it.
MaxStack == NumTypes + 2

(***************************************************************************)
(* Type data (bindings.Type.TypeData, an interface{}).  A primitive is a   *)
(* bare string; the other variants are the *XxxTypeData structs; "nil" is  *)
(* a Type whose TypeData holds none of them.                               *)
(***************************************************************************)
NoType == 0
NoPanic == "none"

PrimitiveNames == {"string"}
RecordNames == {"Team"}

TypeData(kind, name, target) == [kind |-> kind, name |-> name, target |-> target]

TypeDataSet ==
    {TypeData("string", n, NoType) : n \in PrimitiveNames}
    \cup {TypeData("record", n, NoType) : n \in RecordNames}
    \cup {TypeData(k, "", NoType) : k \in {"map", "list", "tuple", "function", "nil"}}
    \cup {TypeData(k, "", t) : k \in {"alias", "reference"}, t \in Nodes}

TypeGraphs == [Nodes -> TypeDataSet]

(***************************************************************************)
(* WriterMethodForType (generator.go:156-177).  The result is the returned *)
(* string, or the panic that ended the call; calls is the depth of nested  *)
(* calls reached.  Alias and Reference recurse with no cycle guard: on a   *)
(* cycle the nesting grows until the runtime aborts the program.           *)
(***************************************************************************)
Returned(s, depth) == [ret |-> s, panic |-> NoPanic, calls |-> depth]
Panicked(p, depth) == [ret |-> "", panic |-> p, calls |-> depth]

FunctionPanic == "Function types not supported in GO"
TuplePanic == "Warning: Tuple types not supported in GO"
StackOverflow == "fatal error: stack overflow"

\* A faulty variant: the alias case names a writer instead of recursing.
RECURSIVE WriterMethodForTypeDropsWrapper(_, _)
WriterMethodForTypeDropsWrapper(t, depth) ==
    LET typeData == types[t] IN
    IF depth > MaxStack THEN Panicked(StackOverflow, depth)
    ELSE CASE typeData.kind = "string" -> Returned("Write_" \o typeData.name, depth)
           [] typeData.kind = "alias" -> Returned("Write_Alias", depth)
           [] typeData.kind = "reference" ->
                  WriterMethodForTypeDropsWrapper(typeData.target, depth + 1)
           [] typeData.kind = "function" -> Panicked(FunctionPanic, depth)
           [] typeData.kind = "tuple" -> Panicked(TuplePanic, depth)
           [] typeData.kind = "record" -> Returned("Write_" \o typeData.name, depth)
           [] typeData.kind = "map" -> Returned("Write_Map", depth)
           [] typeData.kind = "list" -> Returned("Write_List", depth)
           [] OTHER -> Returned("UnknownWriter", depth)

RECURSIVE WriterMethodForType(_, _)
WriterMethodForType(t, depth) ==
    LET typeData == types[t] IN
    IF depth > MaxStack THEN Panicked(StackOverflow, depth)
    ELSE CASE typeData.kind = "string" -> Returned("Write_" \o typeData.name, depth)
           [] typeData.kind = "alias" -> WriterMethodForType(typeData.target, depth + 1)
           [] typeData.kind = "reference" -> WriterMethodForType(typeData.target, depth + 1)
           [] typeData.kind = "function" -> Panicked(FunctionPanic, depth)
           [] typeData.kind = "tuple" -> Panicked(TuplePanic, depth)
           [] typeData.kind = "record" -> Returned("Write_" \o typeData.name, depth)
           [] typeData.kind = "map" -> Returned("Write_Map", depth)
           [] typeData.kind = "list" -> Returned("Write_List", depth)
           [] OTHER -> Returned("UnknownWriter", depth)

(***************************************************************************)
(* The Generator (generator.go:15-68).                                     *)
(***************************************************************************)
OpNames == {"CreateTeam", "DeleteTeam"}

NoBinding == [method |-> "", endpoint |-> ""]
HttpBindings == {[method |-> "POST", endpoint |-> "/teams/"]}

\* The tables a caller can hand to NewGenerator; nil becomes the empty table.
BindingTables == [OpNames -> {NoBinding} \cup HttpBindings]

ClientPrefix == ""
ClientSuffix == "Client"

ClientName == ClientPrefix \o ServiceName \o ClientSuffix

\* The type system: node n is registered as "T<n>" in package "chat".
Packages == {"chat", "other"}
TypeName(n) == "T" \o ToString(n)
ServiceNames == {TypeName(n) : n \in Nodes} \cup {"Missing"}

GetType(pkgName, name) ==
    IF pkgName = "chat" /\ \E n \in Nodes : TypeName(n) = name
    THEN CHOOSE n \in Nodes : TypeName(n) = name
    ELSE NoType

Signature(t) ==
    LET typeData == types[t] IN
    CASE typeData.kind \in {"string", "record"} -> typeData.name
      [] typeData.kind \in {"alias", "reference"} -> TypeName(t)
      [] OTHER -> typeData.kind

RECURSIVE ArgListMaker(_, _)
ArgListMaker(paramTypes, withNames) ==
    IF paramTypes = <<>> THEN ""
    ELSE LET n == Len(paramTypes)
             front == ArgListMaker(SubSeq(paramTypes, 1, n - 1), withNames)
         IN front
            \o (IF n - 1 > 0 THEN ", " ELSE "")
            \o (IF withNames THEN "arg" \o ToString(n - 1) \o " " ELSE "")
            \o Signature(paramTypes[n])

NewGenerator(bindings) ==
    /\ Bindings = bindings
    /\ ServiceName = ""
    /\ ServiceType = NoType
    /\ OpName = ""
    /\ OpType = <<>>
    /\ OpMethod = ""
    /\ OpEndpoint = ""

NilDereference == "runtime error: invalid memory address or nil pointer dereference"
InterfaceConversion == "interface conversion: interface {} is not *bindings.RecordTypeData"

\* template.ParseFiles finds no readable client.gen under TemplatesDir.
TemplateError == "open client.gen: no such file or directory"

\* What the client.gen template renders for the class named name.
ClientGen(name) == "type " \o name \o " struct"

(***************************************************************************)
(* EmitClientClass (generator.go:73-86).                                   *)
(***************************************************************************)
EmitClientClass ==
    /\ pc = "idle"
    /\ Len(stdout) < MaxClasses
    /\ \E pkgName \in Packages, serviceName \in ServiceNames :
         LET t == GetType(pkgName, serviceName) IN
         /\ ServiceName' = serviceName
         /\ IF t = NoType
            THEN /\ panicked' = NilDereference
                 /\ pc' = "panicked"
                 /\ UNCHANGED <<ServiceType, stdout, ret>>
            ELSE IF types[t].kind # "record"
            THEN /\ panicked' = InterfaceConversion
                 /\ pc' = "panicked"
                 /\ UNCHANGED <<ServiceType, stdout, ret>>
            ELSE /\ ServiceType' = t
                 /\ \E parsed \in BOOLEAN :
                      IF parsed
                      THEN /\ stdout' = Append(stdout,
                                 ClientGen(ClientPrefix \o serviceName \o ClientSuffix))
                           /\ ret' = "nil"
                           /\ pc' = "idle"
                           /\ UNCHANGED panicked
                      ELSE /\ panicked' = TemplateError
                           /\ pc' = "panicked"
                           /\ UNCHANGED <<stdout, ret>>
    /\ UNCHANGED <<types, Bindings, OpName, OpType, OpMethod, OpEndpoint, output,
                   index, arg, callString>>
    /\ UNCHANGED clientVars

(***************************************************************************)
(* EmitSendRequestMethod (generator.go:95-114) and the helpers it calls.   *)
(* pc follows the call through its statements; a panic ends it.            *)
(***************************************************************************)
InputLists == UNION {[1..n -> Nodes] : n \in 0..MaxInputs}

DefaultMethod == "GET"
DefaultEndpoint == "http://hello.world/"

\* The writer template of StartWritingMethod (generator.go:117-120), executed.
MethodHeader ==
    "func (svc *" \o ClientName \o ") Send" \o OpName \o "Request("
    \o ArgListMaker(OpType, TRUE)
    \o ") (resp *http.Response, error) { body := bytes.NewBuffer(nil)"

\* The writer template of EndWritingMethod (generator.go:132-145), executed.
RequestConstructionFor(method, endpoint) ==
    "httpreq, err := http.NewRequest(\"" \o method \o "\", \"" \o endpoint
    \o "\", body); if err != nil { return nil, err }; "
    \o "httpreq.Header.Add(\"Content-Type\", \"application/json\"); "
    \o "if svc.RequestDecorator != nil { httpreq, err = svc.RequestDecorator(httpreq); "
    \o "if err != nil { return nil, err } }; c := http.Client{}; return c.Do(httpreq) }"

RequestConstruction == RequestConstructionFor(OpMethod, OpEndpoint)

\* A faulty variant: the call refuses an operation that has no entry in g.Bindings.
EmitSendRequestMethodNeedsBinding ==
    /\ pc = "idle"
    /\ \E opName \in OpNames, opType \in InputLists :
         /\ OpName' = opName
         /\ OpType' = opType
         /\ OpMethod' = Bindings[opName].method
         /\ OpEndpoint' = Bindings[opName].endpoint
         /\ IF Bindings[opName] = NoBinding
            THEN pc' = "panicked" /\ panicked' = "no binding"
            ELSE pc' = "StartWritingMethod" /\ panicked' = panicked
    /\ output' = <<>>
    /\ index' = 0
    /\ ret' = "none"
    /\ UNCHANGED <<types, Bindings, ServiceName, ServiceType, stdout, arg, callString>>
    /\ UNCHANGED clientVars

\* generator.go:95-100: the fields are set, then StartWritingMethod is called.
EmitSendRequestMethod ==
    /\ pc = "idle"
    /\ \E opName \in OpNames, opType \in InputLists :
         /\ OpName' = opName
         /\ OpType' = opType
    /\ OpMethod' = DefaultMethod
    /\ OpEndpoint' = DefaultEndpoint
    /\ output' = <<>>
    /\ index' = 0
    /\ ret' = "none"
    /\ pc' = "StartWritingMethod"
    /\ UNCHANGED <<types, Bindings, ServiceName, ServiceType, stdout, panicked,
                   arg, callString>>
    /\ UNCHANGED clientVars

\* A faulty variant: a single input is bracketed like a list.
AfterHeaderAlwaysList(numInputs) ==
    IF numInputs > 0 THEN "StartWritingList" ELSE "EndWritingMethod"

\* generator.go:101-112: the statement that follows the header.
AfterHeader(numInputs) ==
    IF numInputs > 0
    THEN IF numInputs = 1 THEN "single" ELSE "StartWritingList"
    ELSE "EndWritingMethod"

StartWritingMethod ==
    /\ pc = "StartWritingMethod"
    /\ output' = Append(output, MethodHeader)
    /\ pc' = AfterHeader(Len(OpType))
    /\ UNCHANGED <<types, Bindings, ServiceName, ServiceType, OpName, OpType,
                   OpMethod, OpEndpoint, stdout, index, panicked, ret, arg, callString>>
    /\ UNCHANGED clientVars

StartWritingList ==
    /\ pc = "StartWritingList"
    /\ output' = Append(output, "[")
    /\ pc' = "loop"
    /\ UNCHANGED <<types, Bindings, ServiceName, ServiceType, OpName, OpType,
                   OpMethod, OpEndpoint, stdout, index, panicked, ret, arg, callString>>
    /\ UNCHANGED clientVars

\* generator.go:183-187, called at :103 (pc = "single") and at :107 (pc = "loop").
EmitObjectWriterCall ==
    /\ pc \in {"single", "loop"}
    /\ LET argName == "arg" \o ToString(index)
           call == WriterMethodForType(OpType[index + 1], 1)
       IN IF call.panic # NoPanic
          THEN /\ panicked' = call.panic
               /\ pc' = "panicked"
               /\ UNCHANGED <<output, index>>
          ELSE /\ output' = Append(output, call.ret \o "(body, " \o argName \o ")")
               /\ index' = index + 1
               /\ pc' = IF pc = "single" THEN "EndWritingMethod"
                        ELSE IF index + 1 < Len(OpType) THEN "loop"
                        ELSE "EndWritingList"
               /\ UNCHANGED panicked
    /\ UNCHANGED <<types, Bindings, ServiceName, ServiceType, OpName, OpType,
                   OpMethod, OpEndpoint, stdout, ret, arg, callString>>
    /\ UNCHANGED clientVars

EndWritingList ==
    /\ pc = "EndWritingList"
    /\ output' = Append(output, "]")
    /\ pc' = "EndWritingMethod"
    /\ UNCHANGED <<types, Bindings, ServiceName, ServiceType, OpName, OpType,
                   OpMethod, OpEndpoint, stdout, index, panicked, ret, arg, callString>>
    /\ UNCHANGED clientVars

\* generator.go:131-154, then the return nil of :113.
EndWritingMethod ==
    /\ pc = "EndWritingMethod"
    /\ output' = Append(output, RequestConstruction)
    /\ ret' = "nil"
    /\ pc' = "idle"
    /\ UNCHANGED <<types, Bindings, ServiceName, ServiceType, OpName, OpType,
                   OpMethod, OpEndpoint, stdout, index, panicked, arg, callString>>
    /\ UNCHANGED clientVars

(***************************************************************************)
(* A direct call of WriterMethodForType (generator.go:156) on one type.    *)
(***************************************************************************)
CallWriterMethodForType ==
    /\ pc = "idle"
    /\ \E t \in Nodes :
         /\ arg' = t
         /\ callString' = WriterMethodForType(t, 1)
    /\ pc' = IF callString'.panic # NoPanic THEN "panicked" ELSE "idle"
    /\ panicked' = callString'.panic
    /\ UNCHANGED <<types, Bindings, ServiceName, ServiceType, OpName, OpType,
                   OpMethod, OpEndpoint, output, stdout, index, ret>>
    /\ UNCHANGED clientVars

(***************************************************************************)
(* The method that EndWritingMethod emits (generator.go:133-144), run by a *)
(* caller of the generated client.  svc.RequestDecorator is a field of the *)
(* client the caller may set or clear between calls.                       *)
(***************************************************************************)
NoRequest == [built |-> FALSE, method |-> "", url |-> "", headers |-> <<>>,
              decorated |-> FALSE]

ValidMethods == {"GET", "POST", "PUT", "DELETE", "HEAD", "PATCH", "OPTIONS"}

NewRequestError == "net/http: invalid method or url"
DecoratorError == "decorator error"
TransportError == "transport error"

SetRequestDecorator ==
    /\ rpc \in {"idle", "returned"}
    /\ RequestDecorator' = IF RequestDecorator = "nil" THEN "set" ELSE "nil"
    /\ UNCHANGED <<httpreq, err, resp, rpc, sent>>
    /\ UNCHANGED <<types, pc, arg, callString>>
    /\ UNCHANGED genVars

\* Send<Op>Request is called: body := bytes.NewBuffer(nil) and the writer calls.
SendRequest ==
    /\ rpc \in {"idle", "returned"}
    /\ sent < MaxRequests
    /\ httpreq' = NoRequest
    /\ err' = "nil"
    /\ resp' = "nil"
    /\ rpc' = "NewRequest"
    /\ UNCHANGED <<RequestDecorator, sent>>
    /\ UNCHANGED <<types, pc, arg, callString>>
    /\ UNCHANGED genVars

\* generator.go:133-136
NewRequest ==
    /\ rpc = "NewRequest"
    /\ IF OpMethod \notin ValidMethods \/ OpEndpoint = ""
       THEN /\ err' = NewRequestError
            /\ rpc' = "returned"
            /\ UNCHANGED httpreq
       ELSE /\ httpreq' = [NoRequest EXCEPT !.built = TRUE, !.method = OpMethod,
                                            !.url = OpEndpoint]
            /\ rpc' = "AddHeader"
            /\ UNCHANGED err
    /\ UNCHANGED <<RequestDecorator, resp, sent>>
    /\ UNCHANGED <<types, pc, arg, callString>>
    /\ UNCHANGED genVars

\* generator.go:137-138
AddHeader ==
    /\ rpc = "AddHeader"
    /\ httpreq' = [httpreq EXCEPT
                     !.headers = Append(@, "Content-Type: application/json")]
    /\ rpc' = IF RequestDecorator # "nil" THEN "Decorate" ELSE "Do"
    /\ UNCHANGED <<RequestDecorator, err, resp, sent>>
    /\ UNCHANGED <<types, pc, arg, callString>>
    /\ UNCHANGED genVars

\* A faulty variant: the decorator's error is dropped and the request goes out.
DecorateIgnoresError ==
    /\ rpc = "Decorate"
    /\ \E failed \in BOOLEAN :
         /\ err' = IF failed THEN DecoratorError ELSE "nil"
         /\ httpreq' = [httpreq EXCEPT !.decorated = TRUE]
         /\ rpc' = "Do"
    /\ UNCHANGED <<RequestDecorator, resp, sent>>
    /\ UNCHANGED <<types, pc, arg, callString>>
    /\ UNCHANGED genVars

\* generator.go:139-140
Decorate ==
    /\ rpc = "Decorate"
    /\ \E failed \in BOOLEAN :
         IF failed
         THEN /\ err' = DecoratorError
              /\ httpreq' = NoRequest
              /\ rpc' = "returned"
         ELSE /\ err' = "nil"
              /\ httpreq' = [httpreq EXCEPT !.decorated = TRUE]
              /\ rpc' = "Do"
    /\ UNCHANGED <<RequestDecorator, resp, sent>>
    /\ UNCHANGED <<types, pc, arg, callString>>
    /\ UNCHANGED genVars

\* generator.go:142-143
Do ==
    /\ rpc = "Do"
    /\ sent' = sent + 1
    /\ \E ok \in BOOLEAN :
         /\ resp' = IF ok THEN "response" ELSE "nil"
         /\ err' = IF ok THEN "nil" ELSE TransportError
    /\ rpc' = "returned"
    /\ UNCHANGED <<RequestDecorator, httpreq>>
    /\ UNCHANGED <<types, pc, arg, callString>>
    /\ UNCHANGED genVars

(***************************************************************************)
(* Specifications.                                                         *)
(***************************************************************************)
NoCall ==
    /\ output = <<>>
    /\ stdout = <<>>
    /\ pc = "idle"
    /\ index = 0
    /\ panicked = NoPanic
    /\ ret = "none"
    /\ arg = NoType
    /\ callString = Returned("", 0)

NoClient ==
    /\ RequestDecorator = "nil"
    /\ httpreq = NoRequest
    /\ err = "nil"
    /\ resp = "nil"
    /\ rpc = "idle"
    /\ sent = 0

\* The generator after NewGenerator, over any type graph and binding table.
Init ==
    /\ types \in TypeGraphs
    /\ \E bindings \in BindingTables : NewGenerator(bindings)
    /\ NoCall
    /\ NoClient

Next ==
    \/ EmitSendRequestMethod
    \/ StartWritingMethod
    \/ StartWritingList
    \/ EmitObjectWriterCall
    \/ EndWritingList
    \/ EndWritingMethod

Spec == Init /\ [][Next]_vars

NextClass == EmitClientClass

SpecClass == Init /\ [][NextClass]_vars

\* Direct calls of the writer dispatch over any type graph.
InitWriter ==
    /\ types \in TypeGraphs
    /\ NewGenerator([o \in OpNames |-> NoBinding])
    /\ NoCall
    /\ NoClient

NextWriter == CallWriterMethodForType

SpecWriter == InitWriter /\ [][NextWriter]_vars

\* The generated client of an operation emitted by EmitSendRequestMethod.
InitClient ==
    /\ types = [n \in Nodes |-> TypeData("string", "string", NoType)]
    /\ Bindings = [o \in OpNames |-> NoBinding]
    /\ ServiceName = ""
    /\ ServiceType = NoType
    /\ OpName \in OpNames
    /\ OpType = <<>>
    /\ OpMethod = DefaultMethod
    /\ OpEndpoint = DefaultEndpoint
    /\ output = <<MethodHeader, RequestConstruction>>
    /\ stdout = <<>>
    /\ pc = "idle"
    /\ index = 0
    /\ panicked = NoPanic
    /\ ret = "nil"
    /\ arg = NoType
    /\ callString = Returned("", 0)
    /\ NoClient

NextClient ==
    \/ SetRequestDecorator
    \/ SendRequest
    \/ NewRequest
    \/ AddHeader
    \/ Decorate
    \/ Do

SpecClient == InitClient /\ [][NextClient]_vars

(***************************************************************************)
(* Vocabulary of the properties: resolution of alias/reference chains as   *)
(* the design states it, computed on the type graph independently of the   *)
(* dispatch.                                                               *)
(***************************************************************************)
Wrapper(t) == types[t].kind \in {"alias", "reference"}

RECURSIVE Follow(_, _)
Follow(t, steps) ==
    IF steps = 0 \/ ~Wrapper(t) THEN t ELSE Follow(types[t].target, steps - 1)

\* A chain that is still on a wrapper after NumTypes steps revisits a node.
Cyclic(t) == Wrapper(Follow(t, NumTypes))

Resolve(t) == Follow(t, NumTypes)

RECURSIVE ChainLengthUpTo(_, _)
ChainLengthUpTo(t, steps) ==
    IF steps = 0 \/ ~Wrapper(t) THEN 0
    ELSE 1 + ChainLengthUpTo(types[t].target, steps - 1)

ChainLength(t) == ChainLengthUpTo(t, NumTypes)

\* The dispatch table of the design, on a non-wrapper type data.
TableWriter(typeData) ==
    CASE typeData.kind \in {"string", "record"} -> "Write_" \o typeData.name
      [] typeData.kind = "map" -> "Write_Map"
      [] typeData.kind = "list" -> "Write_List"
      [] OTHER -> "no writer"

TableWriters ==
    {"Write_" \o n : n \in PrimitiveNames \cup RecordNames} \cup {"Write_Map", "Write_List"}

UnsupportedTypeErrors == {FunctionPanic, TuplePanic}

Called == arg # NoType

Completed == pc = "idle" /\ ret = "nil"

Serializable(t) == ~Cyclic(t) /\ types[Resolve(t)].kind \notin {"tuple", "function"}

Unsupported(t) == ~Cyclic(t) /\ types[Resolve(t)].kind \in {"tuple", "function"}

Last(seq) == seq[Len(seq)]

(***************************************************************************)
(* Properties of the writer dispatch (SpecWriter).                         *)
(***************************************************************************)

\* C1: the dispatch is total with no silent default: on every type that holds
\* no cycle the result is a writer name of the dispatch table or the error of
\* an unsupported kind, never a fallback name.
C1_DispatchTotalNoDefault ==
    (Called /\ ~Cyclic(arg)) =>
        \/ callString.panic \in UnsupportedTypeErrors
        \/ callString.panic = NoPanic /\ callString.ret \in TableWriters

\* C5: on every type whose alias/reference chain revisits a node, the dispatch
\* ends with ResolutionError{cycleDetected}.
C5_CycleIsResolutionError ==
    (Called /\ Cyclic(arg)) => callString.panic = "ResolutionError{cycleDetected}"

\* C6: on every acyclic chain of L alias/reference wrappers around a primitive,
\* record, map or list, the dispatch returns the table's writer of the terminal
\* type, the same as on the terminal type itself, in at most L+1 nested calls.
C6_ChainResolvesToTerminalWriter ==
    (Called /\ ~Cyclic(arg)
       /\ types[Resolve(arg)].kind \in {"string", "record", "map", "list"}) =>
        /\ callString.panic = NoPanic
        /\ callString.ret = TableWriter(types[Resolve(arg)])
        /\ callString.ret = WriterMethodForType(Resolve(arg), 1).ret
        /\ callString.calls <= ChainLength(arg) + 1

C6_Witness ==
    /\ Called
    /\ ~Cyclic(arg)
    /\ ChainLength(arg) >= 1
    /\ types[arg].kind = "alias"
    /\ types[Resolve(arg)].kind = "record"
    /\ callString.ret = "Write_Team"

(***************************************************************************)
(* Properties of the method emission (Spec).                               *)
(***************************************************************************)
Started == OpName # ""

Ended == Started /\ (Completed \/ pc = "panicked")

WriterCall(i) ==
    WriterMethodForType(OpType[i + 1], 1).ret \o "(body, arg" \o ToString(i) \o ")"

\* C2: an operation with an input that resolves to a tuple or a function ends
\* in the error of the unsupported kind and leaves nothing of its method in
\* the output.
C2_FailedOperationEmitsNothing ==
    (Ended /\ \E i \in 1..Len(OpType) : Unsupported(OpType[i])) =>
        /\ pc = "panicked"
        /\ output = <<>>

\* C3: an operation with an entry in the binding table is emitted with that
\* entry's method and endpoint.
C3_BindingIsUsed ==
    (Completed /\ Bindings[OpName] # NoBinding) =>
        /\ OpMethod = Bindings[OpName].method
        /\ OpEndpoint = Bindings[OpName].endpoint
        /\ Last(output) = RequestConstructionFor(Bindings[OpName].method,
                                                 Bindings[OpName].endpoint)

\* C4: a completed emission holds the method header, then no writer call for 0
\* inputs, one unbracketed call on arg0 for 1 input, and for N > 1 inputs N
\* calls in declared order between one "[" and one "]", the i-th being the
\* writer of the i-th input type applied to arg<i>, then the request construction.
C4_ArgumentCountBranching ==
    Completed =>
        LET n == Len(OpType) IN
        /\ output[1] = MethodHeader
        /\ Last(output) = RequestConstruction
        /\ n = 0 => Len(output) = 2
        /\ n = 1 => Len(output) = 3 /\ output[2] = WriterCall(0)
        /\ n > 1 => /\ Len(output) = n + 4
                    /\ output[2] = "["
                    /\ \A i \in 0..(n - 1) : output[3 + i] = WriterCall(i)
                    /\ output[n + 3] = "]"

C4_Witness ==
    /\ Completed
    /\ Len(OpType) = 2
    /\ output[3] = "Write_Team(body, arg0)"
    /\ output[4] = "Write_Map(body, arg1)"

\* C7: an operation without an entry in the binding table is emitted all the
\* same: its emission fails only on an input type that cannot be serialized,
\* a completed emission holds the request construction with GET and the
\* placeholder endpoint, and the next operation can be emitted after it.
C7_MissingBindingUsesDefault ==
    (Started /\ Bindings[OpName] = NoBinding) =>
        /\ pc = "panicked" => \E i \in 1..Len(OpType) : ~Serializable(OpType[i])
        /\ Completed =>
             /\ OpMethod = "GET"
             /\ OpEndpoint = "http://hello.world/"
             /\ Last(output) = RequestConstructionFor("GET", "http://hello.world/")
             /\ ENABLED EmitSendRequestMethod

C7_Witness ==
    /\ Completed
    /\ Bindings[OpName] = NoBinding
    /\ \E o \in OpNames : Bindings[o] # NoBinding
    /\ Len(OpType) = 1
    /\ output[2] = "Write_Team(body, arg0)"

\* C10: the header is emitted first, then the writer calls, then the request
\* construction, each once and in this order; the call ends done or failed,
\* and failed only through the error of an unsupported input type.
C10_StateMachine ==
    /\ pc = "StartWritingMethod" => output = <<>>
    /\ pc \in {"single", "StartWritingList", "loop", "EndWritingList",
               "EndWritingMethod"} =>
          /\ output[1] = MethodHeader
          /\ \A k \in 2..Len(output) :
                output[k] \notin {MethodHeader, RequestConstruction}
    /\ Completed =>
          /\ output[1] = MethodHeader
          /\ Last(output) = RequestConstruction
          /\ \A k \in 2..(Len(output) - 1) :
                output[k] \notin {MethodHeader, RequestConstruction}
    /\ pc = "panicked" => panicked \in UnsupportedTypeErrors

(***************************************************************************)
(* Properties of the class emission (SpecClass).                           *)
(***************************************************************************)

\* C8: EmitClientClass never crashes: a name that is not registered gives
\* UnknownTypeError, a registered type that is no record NotARecordError, and
\* a class header is written only for a record.
C8_ClassErrorsAreReturned ==
    /\ pc # "panicked"
    /\ (ServiceName # "" /\ GetType("chat", ServiceName) = NoType) =>
           ret = "UnknownTypeError"
    /\ (ServiceName # "" /\ GetType("chat", ServiceName) # NoType
          /\ types[GetType("chat", ServiceName)].kind # "record") =>
           ret \in {"UnknownTypeError", "NotARecordError"}
    /\ stdout # <<>> => (ServiceType # NoType /\ types[ServiceType].kind = "record")

(***************************************************************************)
(* Properties of the generated method (SpecClient).                        *)
(***************************************************************************)

\* C9: a request is dispatched only from a constructed request carrying the
\* content type, decorated exactly when a decorator is configured; a decorator
\* error is returned at once with no dispatch; without a decorator the
\* decoration is skipped and the request is dispatched.
C9_DecorateBeforeDispatch ==
    [][ /\ sent' # sent =>
             /\ rpc = "Do"
             /\ httpreq.built
             /\ httpreq.headers = <<"Content-Type: application/json">>
             /\ httpreq.decorated <=> (RequestDecorator # "nil")
        /\ (rpc = "Decorate" /\ err' # "nil") =>
             /\ rpc' = "returned"
             /\ err' = DecoratorError
             /\ resp' = "nil"
             /\ sent' = sent
        /\ rpc = "AddHeader" =>
             rpc' = (IF RequestDecorator = "nil" THEN "Do" ELSE "Decorate")
        /\ rpc' = "Do" => rpc \in {"AddHeader", "Decorate"}
      ]_vars

C9_Witness ==
    /\ rpc = "returned"
    /\ err = DecoratorError
    /\ RequestDecorator = "set"
    /\ sent >= 1

====
